---- MODULE Spec2Model ----
(***************************************************************************)
(* Model of the FLIRT .sig decoder of SigViewer                            *)
(* (src/sigparser/flirtparser.cpp, declarations in flirtparser.h).         *)
(*                                                                         *)
(* One call of FlirtParser::parse is one behaviour: Init fixes the input   *)
(* `data`, the actions are the steps of parse in program order (gate,      *)
(* header, decompression gate, the recursive tree walk with an explicit    *)
(* call stack, the leaf decoder one CRC block / one module at a time).     *)
(*                                                                         *)
(* Integers wider than 16 bits are kept as tuples of 16-bit limbs, most    *)
(* significant first: a quint32 is <<hi, lo>>, the quint64 variant mask    *)
(* is <<m3, m2, m1, m0>>.  All arithmetic on them is done limb-wise with   *)
(* the width of the C++ type.                                              *)
(***************************************************************************)
EXTENDS Integers, Sequences, FiniteSets, TLC

VARIABLES
    data,       \* the argument of parse (never changes)
    body,       \* ParseState::body
    st,         \* ParseState cursor: [pos, eof, err] (+ history field sat)
    version,    \* ParseState::version
    pc,         \* position of parse: start, header, inflate, tree, done
    stack,      \* activation records of parseTree / parseLeaf, root first
    result,     \* FlirtResult
    hist,       \* history: what was read for each appended module, and the
                \* place of the walk that failed
    prim        \* output of a primitive decoded on its own (SpecNode, SpecMulti)

vars == <<data, body, st, version, pc, stack, result, hist, prim>>

----------------------------------------------------------------------------
(* Program constants (flirtparser.h)                                       *)

IDASIG_FEATURE_COMPRESSED == 16
IDASIG_PARSE_MORE_PUBLIC_NAMES == 1
IDASIG_PARSE_READ_TAIL_BYTES == 2
IDASIG_PARSE_READ_REFERENCED_FUNCTIONS == 4
IDASIG_PARSE_MORE_MODULES_WITH_SAME_CRC == 8
IDASIG_PARSE_MORE_MODULES == 16
IDASIG_FUNCTION_LOCAL == 2
IDASIG_FUNCTION_UNRESOLVED_COLLISION == 8
FLIRT_NAME_MAX == 1024

\* "IDASGN"
Magic == <<73, 68, 65, 83, 71, 78>>

MsgNotFlirt == "Not a valid FLIRT .sig file"
MsgTreeEof == "Unexpected EOF in tree"
MsgTreeGeneric == "Parse error in signature tree"
MsgInflateFailed == "FLIRT decompression failed"
MsgNoZlib == "Compressed .sig requires zlib (build without ZLIB found)"

----------------------------------------------------------------------------
(* Bit and limb arithmetic                                                 *)

Pow2(n) == 2 ^ n

\* (x & m) != 0 for a one-bit m = 2^k given as the number m
HasBit(x, m) == (x \div m) % 2 = 1

U32Zero == <<0, 0>>

U32Of16(x) == <<0, x>>

\* quint32 addition, wrapping at 2^32
U32Add(a, b) ==
    LET lo == a[2] + b[2]
        hi == a[1] + b[1] + (lo \div 65536)
    IN  <<hi % 65536, lo % 65536>>

U32Less(a, b) == a[1] < b[1] \/ (a[1] = b[1] /\ a[2] < b[2])

U32Leq(a, b) == a = b \/ U32Less(a, b)

\* i < n for a small loop counter i and a quint32 n
IntLessU32(i, n) == n[1] > 0 \/ i < n[2]

\* bit k (0 = least significant) of a 64-bit mask <<m3, m2, m1, m0>>
MaskBit(mask, k) == (mask[4 - (k \div 16)] \div Pow2(k % 16)) % 2

----------------------------------------------------------------------------
(* Bit-stream reader                                                       *)
(*                                                                         *)
(* A read returns [st |-> the cursor after it, v |-> the value].  Where    *)
(* the code reads again after a first read, the rest of the function is an *)
(* operator of its own that takes the first read's result.                 *)

\* `T x = e; ... x ...`: The({F(x) : x \in {e}}) is F of the value of e,
\* the rest of a function working on the result x of a call made once
The(S) == CHOOSE y \in S : TRUE

StInit == [pos |-> 0, eof |-> FALSE, err |-> FALSE, sat |-> FALSE]

EofErr(s) == s.eof \/ s.err

\* readByte: saturating read of one byte of `body`.  The history field sat
\* records that some read returned the saturation value 0 instead of a byte.
\* readByte that returns 0 at the end of the body without setting eof
readByteNoEof(s) ==
    IF s.eof \/ s.err \/ s.pos >= Len(body)
    THEN [st |-> [s EXCEPT !.sat = TRUE], v |-> 0]
    ELSE [st |-> [s EXCEPT !.pos = s.pos + 1], v |-> body[s.pos + 1]]

\* readByte without the pos++ of line 42
readByteNoAdvance(s) ==
    IF s.eof \/ s.err \/ s.pos >= Len(body)
    THEN [st |-> [s EXCEPT !.eof = (s.pos >= Len(body)), !.sat = TRUE], v |-> 0]
    ELSE [st |-> s, v |-> body[s.pos + 1]]

readByte(s) ==
    IF s.eof \/ s.err \/ s.pos >= Len(body)
    THEN [st |-> [s EXCEPT !.eof = (s.pos >= Len(body)), !.sat = TRUE], v |-> 0]
    ELSE [st |-> [s EXCEPT !.pos = s.pos + 1], v |-> body[s.pos + 1]]

\* r = (r << 8) | readByte(st) on a quint16
ShortLow(r, b) == [st |-> b.st, v |-> (r * 256 + b.v) % 65536]

readShortBE2(a) == The({ShortLow(a.v, b) : b \in {readByte(a.st)}})

readShortBE(s) == The({readShortBE2(r) : r \in {readByte(s)}})

\* (r << 16) | readShortBE(st) on a quint32
WordLow(r, b) == [st |-> b.st, v |-> <<r, b.v>>]

readWordBE2(a) == The({WordLow(a.v, b) : b \in {readShortBE(a.st)}})

readWordBE(s) == The({readWordBE2(r) : r \in {readShortBE(s)}})

\* line 60: ((r & 0x7f) << 8) | readByte(st)
Multi2(r, b) == [st |-> b.st, v |-> <<0, (r % 128) * 256 + b.v>>]

\* lines 62-64 with the mask 0x7f of line 60 in place of 0x3f
Multi4Mask7f(r, b) ==
    The({WordLow((r % 128) * 256 + b.v, k) : k \in {readShortBE(b.st)}})

\* lines 62-64: ((r & 0x3f) << 24) | (readByte(st) << 16), then | readShortBE(st)
Multi4(r, b) ==
    The({WordLow((r % 64) * 256 + b.v, k) : k \in {readShortBE(b.st)}})

\* lines 59-66 on the first byte a
MultiRest(a) ==
    IF ~HasBit(a.v, 128) THEN [st |-> a.st, v |-> <<0, a.v>>]
    ELSE IF ~HasBit(a.v, 64) THEN The({Multi2(a.v, b) : b \in {readByte(a.st)}})
    ELSE IF ~HasBit(a.v, 32) THEN The({Multi4(a.v, b) : b \in {readByte(a.st)}})
    ELSE readWordBE(a.st)

readMultipleBytes(s) == The({MultiRest(r) : r \in {readByte(s)}})

Max2Low(r, b) == [st |-> b.st, v |-> (r % 128) * 256 + b.v]

Max2Rest(a) ==
    IF HasBit(a.v, 128) THEN The({Max2Low(a.v, b) : b \in {readByte(a.st)}}) ELSE a

readMax2Bytes(s) == The({Max2Rest(r) : r \in {readByte(s)}})

\* a quint16 stored into a quint32
Widen(r) == [st |-> r.st, v |-> U32Of16(r.v)]

\* "readMultipleBytes if version >= 9, else readMax2Bytes" as a quint32
ReadVersioned(s, ver) ==
    IF ver >= 9 THEN readMultipleBytes(s) ELSE The({Widen(r) : r \in {readMax2Bytes(s)}})

----------------------------------------------------------------------------
(* Node decoder                                                            *)

\* The two operands of `|` in line 235 both call readMultipleBytes and C++
\* leaves their order of evaluation unspecified: "lr" evaluates the left
\* (high) operand first, "rl" the right (low) operand first.
EvalOrders == {"lr", "rl"}

NodeLen(r) == [ok |-> TRUE, st |-> r.st, len |-> r.v]

readNodeLength(s) ==
    IF EofErr(s) THEN [ok |-> FALSE, st |-> s, len |-> 0]
    ELSE The({NodeLen(r) : r \in {readByte(s)}})

Mask16(r) == [ok |-> ~EofErr(r.st), st |-> r.st, mask |-> <<0, 0, 0, r.v>>]

Mask32(r) == [ok |-> ~EofErr(r.st), st |-> r.st, mask |-> <<0, 0>> \o r.v]

\* first and second are the values of the first and the second call made
Mask64(first, b, ord) ==
    [ok |-> ~EofErr(b.st), st |-> b.st,
     mask |-> IF ord = "lr" THEN first \o b.v ELSE b.v \o first]

Mask64Second(a, ord) == The({Mask64(a.v, b, ord) : b \in {readMultipleBytes(a.st)}})

readNodeVariantMask(s, nodeLen, ord) ==
    IF nodeLen < 16 THEN The({Mask16(r) : r \in {readMax2Bytes(s)}})
    ELSE IF nodeLen <= 32 THEN The({Mask32(r) : r \in {readMultipleBytes(s)}})
    ELSE IF nodeLen <= 64
    THEN The({Mask64Second(a, ord) : a \in {readMultipleBytes(s)}})
    ELSE [ok |-> FALSE, st |-> s, mask |-> <<0, 0, 0, 0>>]

EmptyNode == [patternBytes |-> <<>>, variantMask |-> <<>>]

\* One iteration of the loop of readNodeBytes (lines 248-254).  a is the
\* state of the loop: run is FALSE once line 251 has returned false, pb and
\* vm are patternBytes and variantMask up to index i; the bit tested is bit
\* nodeLen - 1 - i of the mask.
NodeBytesIter(a, nodeLen, mask, i) ==
    IF ~a.run THEN a
    ELSE IF MaskBit(mask, nodeLen - 1 - i) = 1
    THEN [a EXCEPT !.pb = Append(@, 0), !.vm = Append(@, 1)]
    ELSE IF EofErr(a.st) THEN [a EXCEPT !.run = FALSE]
    ELSE The({[a EXCEPT !.st = r.st, !.pb = Append(@, r.v), !.vm = Append(@, 0)] :
                r \in {readByte(a.st)}})

\* The iterations lo .. hi - 1 of the loop, in order: the first half, then
\* the second half from the state the first half leaves.
RECURSIVE NodeBytesRange(_, _, _, _, _)
NodeBytesRange(a, nodeLen, mask, lo, hi) ==
    IF hi <= lo THEN a
    ELSE IF hi = lo + 1 THEN NodeBytesIter(a, nodeLen, mask, lo)
    ELSE The({NodeBytesRange(b, nodeLen, mask, (lo + hi) \div 2, hi) :
                b \in {NodeBytesRange(a, nodeLen, mask, lo, (lo + hi) \div 2)}})

\* The loop of readNodeBytes (lines 247-255) and the return after it
NodeBytesLoop(s, nodeLen, mask) ==
    The({[ok |-> a.run, st |-> a.st,
          node |-> [patternBytes |-> a.pb, variantMask |-> a.vm]] :
            a \in {NodeBytesRange([run |-> TRUE, st |-> s, pb |-> <<>>, vm |-> <<>>],
                                  nodeLen, mask, 0, nodeLen)}})

\* readNodeBytes without the test of line 243
readNodeBytesNoLengthTest(s, nodeLen, mask) ==
    NodeBytesLoop(s, nodeLen, mask)

readNodeBytes(s, nodeLen, mask) ==
    IF nodeLen > 63 \/ nodeLen <= 0 THEN [ok |-> FALSE, st |-> s, node |-> EmptyNode]
    ELSE NodeBytesLoop(s, nodeLen, mask)

\* lines 387-392 of parseTree: length, mask, bytes of one node
NodeAfterMask(len, m) ==
    IF ~m.ok THEN [ok |-> FALSE, st |-> m.st, node |-> EmptyNode]
    ELSE readNodeBytes(m.st, len, m.mask)

NodeAfterLength(l, ord) ==
    IF ~l.ok THEN [ok |-> FALSE, st |-> l.st, node |-> EmptyNode]
    ELSE The({NodeAfterMask(l.len, m) : m \in {readNodeVariantMask(l.st, l.len, ord)}})

DecodeNode(s, ord) == The({NodeAfterLength(l, ord) : l \in {readNodeLength(s)}})

----------------------------------------------------------------------------
(* Module decoder                                                          *)

\* `offset = delta`: the running offset reset for each function
AddOffsetReset(offset, delta) == delta

\* `offset += delta` on the quint32 running offset (lines 263, 265)
AddOffset(offset, delta) == U32Add(offset, delta)

\* The name loop of readModulePublicFunctions (lines 282-286), entered
\* with currentByte = cur just read and the cursor s behind it.  The loop
\* is summed up by the index at which it stops: the j-th byte it looks at
\* is cur for j = 0 and the byte j - 1 places after the cursor otherwise.
BytesLeft(s) == IF EofErr(s) THEN 0 ELSE Len(body) - s.pos

NameByte(s, cur, j) == IF j = 0 THEN cur ELSE body[s.pos + j]

\* the loop ends at j: the read of byte j ran off the end (line 285), or
\* the name is full, or byte j is below 0x20 (line 282)
NameStops(s, cur, j) ==
    \/ j > BytesLeft(s)
    \/ j = FLIRT_NAME_MAX
    \/ NameByte(s, cur, j) < 32

NameEnd(s, cur) ==
    CHOOSE j \in 0..FLIRT_NAME_MAX :
        NameStops(s, cur, j) /\ \A i \in 0..(j - 1) : ~NameStops(s, cur, i)

\* the cursor after a read that ran off the end of body
RanOff(s) == [s EXCEPT !.pos = s.pos + BytesLeft(s), !.eof = TRUE, !.sat = TRUE]

\* the name loop without the test of line 285: the 0 of the read that ran
\* off the end stops the loop and becomes the flags byte
NameResultNoEofTest(s, cur, n) ==
    IF n > BytesLeft(s)
    THEN [ok |-> TRUE, st |-> RanOff(s),
          name |-> [j \in 1..n |-> NameByte(s, cur, j - 1)], cur |-> 0]
    ELSE [ok |-> TRUE, st |-> [s EXCEPT !.pos = s.pos + n],
          name |-> [j \in 1..n |-> NameByte(s, cur, j - 1)],
          cur |-> NameByte(s, cur, n)]

NameResult(s, cur, n) ==
    IF n > BytesLeft(s)
    THEN [ok |-> FALSE, st |-> RanOff(s), name |-> <<>>, cur |-> 0]
    ELSE [ok |-> TRUE, st |-> [s EXCEPT !.pos = s.pos + n],
          name |-> [j \in 1..n |-> NameByte(s, cur, j - 1)],
          cur |-> NameByte(s, cur, n)]

ReadName(s, cur) == The({NameResult(s, cur, n) : n \in {NameEnd(s, cur)}})

PubBad(s, fns, deltas, ats, flags) ==
    [ok |-> FALSE, st |-> s, fns |-> fns, deltas |-> deltas, ats |-> ats, flags |-> flags]

\* QString::fromLatin1 of a QByteArray (Qt 6: main.cpp uses
\* QStyleHints::setColorScheme): one character per byte, NUL bytes
\* included, the character's code the byte's value
fromLatin1(bytes) == [j \in 1..Len(bytes) |-> bytes[j] % 256]

MakeFunction(name, off, attr) ==
    [name |-> fromLatin1(name), offset |-> off,
     isLocal |-> HasBit(attr, IDASIG_FUNCTION_LOCAL),
     isCollision |-> HasBit(attr, IDASIG_FUNCTION_UNRESOLVED_COLLISION)]

\* The do-while of readModulePublicFunctions.  deltas and ats are history
\* (the deltas decoded so far, and the cursor positions at which the
\* iterations so far began), flags the value of the caller's `flags`.
RECURSIVE PublicFunctionsLoop(_, _, _, _, _, _, _)
RECURSIVE PubAfterDelta(_, _, _, _, _, _, _)
RECURSIVE PubAfterFirst(_, _, _, _, _, _, _)
RECURSIVE PubAfterAttr(_, _, _, _, _, _, _, _)
RECURSIVE PubAfterName(_, _, _, _, _, _, _, _)
PublicFunctionsLoop(s, ver, offset, fns, deltas, ats, flags) ==
    The({PubAfterDelta(d, ver, offset, fns, deltas, Append(ats, s.pos), flags) :
            d \in {ReadVersioned(s, ver)}})

\* lines 262-272 with the delta d read
PubAfterDelta(d, ver, offset, fns, deltas, ats, flags) ==
    IF EofErr(d.st) THEN PubBad(d.st, fns, deltas, ats, flags)
    ELSE The({PubAfterFirst(c, ver, AddOffset(offset, d.v), fns, Append(deltas, d.v), ats,
                            flags) : c \in {readByte(d.st)}})

\* lines 273-278 with the first byte c read: an attribute byte or the
\* first name byte (attr = 0 stands for no attribute byte)
PubAfterFirst(c, ver, off, fns, deltas, ats, flags) ==
    IF EofErr(c.st) THEN PubBad(c.st, fns, deltas, ats, flags)
    ELSE IF c.v < 32
    THEN The({PubAfterAttr(b, c.v, ver, off, fns, deltas, ats, flags) :
                b \in {readByte(c.st)}})
    ELSE PubAfterAttr(c, 0, ver, off, fns, deltas, ats, flags)

\* lines 278-286 with currentByte c
PubAfterAttr(c, attr, ver, off, fns, deltas, ats, flags) ==
    IF EofErr(c.st) THEN PubBad(c.st, fns, deltas, ats, flags)
    ELSE The({PubAfterName(n, attr, ver, off, fns, deltas, ats, flags) :
                n \in {ReadName(c.st, c.v)}})

\* lines 287-291 with the name n read; n.cur is the byte that ended it
PubAfterName(n, attr, ver, off, fns, deltas, ats, flags) ==
    IF ~n.ok THEN PubBad(n.st, fns, deltas, ats, flags)
    ELSE IF HasBit(n.cur, IDASIG_PARSE_MORE_PUBLIC_NAMES)
    THEN PublicFunctionsLoop(n.st, ver, off,
                             Append(fns, MakeFunction(n.name, off, attr)), deltas, ats,
                             n.cur)
    ELSE [ok |-> TRUE, st |-> n.st, fns |-> Append(fns, MakeFunction(n.name, off, attr)),
          deltas |-> deltas, ats |-> ats, flags |-> n.cur]

readModulePublicFunctions(s, ver, flags) ==
    PublicFunctionsLoop(s, ver, U32Zero, <<>>, <<>>, <<>>, flags)

\* `int count = (st.version >= 8) ? readByte(st) : 1` (lines 295, 313)
ReadCount(s, ver) == IF ver >= 8 THEN readByte(s) ELSE [st |-> s, v |-> 1]

TailBad(s, tbs, count) == [ok |-> FALSE, st |-> s, tailBytes |-> tbs, count |-> count]

\* the for loop of readModuleTailBytes
RECURSIVE TailBytesLoop(_, _, _, _, _)
RECURSIVE TailAfterOffset(_, _, _, _, _)
RECURSIVE TailAfterValue(_, _, _, _, _, _)
TailBytesLoop(s, ver, count, i, tbs) ==
    IF i >= count THEN [ok |-> TRUE, st |-> s, tailBytes |-> tbs, count |-> count]
    ELSE The({TailAfterOffset(o, ver, count, i, tbs) : o \in {ReadVersioned(s, ver)}})

TailAfterOffset(o, ver, count, i, tbs) ==
    IF EofErr(o.st) THEN TailBad(o.st, tbs, count)
    ELSE The({TailAfterValue(o.v, v, ver, count, i, tbs) : v \in {readByte(o.st)}})

TailAfterValue(off, v, ver, count, i, tbs) ==
    IF EofErr(v.st) THEN TailBad(v.st, tbs, count)
    ELSE TailBytesLoop(v.st, ver, count, i + 1, Append(tbs, [offset |-> off, value |-> v.v]))

TailAfterCount(c, ver) ==
    IF EofErr(c.st) THEN TailBad(c.st, <<>>, c.v)
    ELSE TailBytesLoop(c.st, ver, c.v, 0, <<>>)

readModuleTailBytes(s, ver) == The({TailAfterCount(c, ver) : c \in {ReadCount(s, ver)}})

\* The inner for loop of readModuleReferencedFunctions (lines 331-334):
\* n bytes, each read followed by the eof test.  n < FLIRT_NAME_MAX here.
RefName(s, n) ==
    IF n > BytesLeft(s) THEN [ok |-> FALSE, st |-> RanOff(s), bytes |-> <<>>]
    ELSE [ok |-> TRUE, st |-> [s EXCEPT !.pos = s.pos + n],
          bytes |-> SubSeq(body, s.pos + 1, s.pos + n)]

\* lines 335-339 without the chop of line 337
RefEntryNoChop(offset, bytes) ==
    [offset |-> offset, name |-> fromLatin1(bytes),
     negativeOffset |-> Len(bytes) > 0 /\ bytes[Len(bytes)] = 0]

\* lines 335-339: a trailing NUL marks a negative offset and is chopped
RefEntry(offset, bytes) ==
    IF Len(bytes) > 0 /\ bytes[Len(bytes)] = 0
    THEN [offset |-> offset, name |-> fromLatin1(SubSeq(bytes, 1, Len(bytes) - 1)),
          negativeOffset |-> TRUE]
    ELSE [offset |-> offset, name |-> fromLatin1(bytes), negativeOffset |-> FALSE]

RefBad(s, rfs, count) ==
    [ok |-> FALSE, st |-> s, referencedFunctions |-> rfs, count |-> count]

\* the outer for loop of readModuleReferencedFunctions
RECURSIVE RefFunctionsLoop(_, _, _, _, _)
RECURSIVE RefAfterOffset(_, _, _, _, _)
RECURSIVE RefAfterLenByte(_, _, _, _, _, _)
RECURSIVE RefAfterLen(_, _, _, _, _, _)
RECURSIVE RefAfterName(_, _, _, _, _, _)
RefFunctionsLoop(s, ver, count, i, rfs) ==
    IF i >= count
    THEN [ok |-> TRUE, st |-> s, referencedFunctions |-> rfs, count |-> count]
    ELSE The({RefAfterOffset(o, ver, count, i, rfs) : o \in {ReadVersioned(s, ver)}})

\* lines 322-323
RefAfterOffset(o, ver, count, i, rfs) ==
    IF EofErr(o.st) THEN RefBad(o.st, rfs, count)
    ELSE The({RefAfterLenByte(o.v, l, ver, count, i, rfs) : l \in {readByte(o.st)}})

\* lines 324-328
RefAfterLenByte(off, l, ver, count, i, rfs) ==
    IF EofErr(l.st) THEN RefBad(l.st, rfs, count)
    ELSE IF l.v = 0
    THEN The({RefAfterLen(off, n, ver, count, i, rfs) : n \in {readMultipleBytes(l.st)}})
    ELSE RefAfterLen(off, Widen(l), ver, count, i, rfs)

\* lines 327-334
RefAfterLen(off, l, ver, count, i, rfs) ==
    IF EofErr(l.st) THEN RefBad(l.st, rfs, count)
    ELSE IF ~U32Less(l.v, U32Of16(FLIRT_NAME_MAX)) THEN RefBad(l.st, rfs, count)
    ELSE The({RefAfterName(off, n, ver, count, i, rfs) : n \in {RefName(l.st, l.v[2])}})

\* lines 333-340
RefAfterName(off, n, ver, count, i, rfs) ==
    IF ~n.ok THEN RefBad(n.st, rfs, count)
    ELSE RefFunctionsLoop(n.st, ver, count, i + 1, Append(rfs, RefEntry(off, n.bytes)))

RefAfterCount(c, ver) ==
    IF EofErr(c.st) THEN RefBad(c.st, <<>>, c.v)
    ELSE RefFunctionsLoop(c.st, ver, c.v, 0, <<>>)

readModuleReferencedFunctions(s, ver) ==
    The({RefAfterCount(c, ver) : c \in {ReadCount(s, ver)}})

\* One iteration of the inner do-while of parseLeaf (lines 353-371): one
\* module.  The result holds the module, the new value of `flags` and h,
\* the history of the module: its flags byte and the cursor behind it,
\* the cursor behind its tail bytes, where the module starts in body, the
\* deltas read, the tail-byte and referenced-function counts used.
LeafBad(s, flags) == [ok |-> FALSE, st |-> s, flags |-> flags, mod |-> <<>>, h |-> <<>>]

NewModule(path, crcLength, crc16) ==
    [patternPath |-> path, crcLength |-> crcLength, crc16 |-> crc16,
     length |-> U32Zero, publicFunctions |-> <<>>, tailBytes |-> <<>>,
     referencedFunctions |-> <<>>]

\* line 371
LeafAfterRefs(r, mod, flags, h) ==
    IF ~r.ok THEN LeafBad(r.st, flags)
    ELSE [ok |-> TRUE, st |-> r.st, flags |-> flags,
          mod |-> [mod EXCEPT !.referencedFunctions = r.referencedFunctions],
          h |-> [h EXCEPT !.refCount = r.count]]

\* lines 366-370
LeafAfterTail(t, mod, flags, h, ver) ==
    IF ~t.ok THEN LeafBad(t.st, flags)
    ELSE The({LeafAfterRefs(r, [mod EXCEPT !.tailBytes = t.tailBytes], flags,
                            [h EXCEPT !.tailCount = t.count, !.refAt = t.st.pos]) :
                r \in {IF HasBit(flags, IDASIG_PARSE_READ_REFERENCED_FUNCTIONS)
                       THEN readModuleReferencedFunctions(t.st, ver)
                       ELSE [ok |-> TRUE, st |-> t.st, referencedFunctions |-> <<>>,
                             count |-> 0]}})

\* lines 364-367 without the call of line 366
LeafAfterFunctionsNoTail(p, mod, h, ver) ==
    IF ~p.ok THEN LeafBad(p.st, p.flags)
    ELSE The({LeafAfterTail(t, [mod EXCEPT !.publicFunctions = p.fns], p.flags,
                            [h EXCEPT !.flags = p.flags, !.flagsAt = p.st.pos,
                                      !.deltas = p.deltas, !.fnAt = p.ats], ver) :
                t \in {[ok |-> TRUE, st |-> p.st, tailBytes |-> <<>>, count |-> 0]}})

\* lines 364-367
LeafAfterFunctions(p, mod, h, ver) ==
    IF ~p.ok THEN LeafBad(p.st, p.flags)
    ELSE The({LeafAfterTail(t, [mod EXCEPT !.publicFunctions = p.fns], p.flags,
                            [h EXCEPT !.flags = p.flags, !.flagsAt = p.st.pos,
                                      !.deltas = p.deltas, !.fnAt = p.ats], ver) :
                t \in {IF HasBit(p.flags, IDASIG_PARSE_READ_TAIL_BYTES)
                       THEN readModuleTailBytes(p.st, ver)
                       ELSE [ok |-> TRUE, st |-> p.st, tailBytes |-> <<>>, count |-> 0]}})

\* lines 362-364
LeafAfterLength(l, mod, flags, h, ver) ==
    IF EofErr(l.st) THEN LeafBad(l.st, flags)
    ELSE The({LeafAfterFunctions(p, [mod EXCEPT !.length = l.v], h, ver) :
                p \in {readModulePublicFunctions(l.st, ver, flags)}})

LeafModule(s, ver, path, crcLength, crc16, flags) ==
    The({LeafAfterLength(l, NewModule(path, crcLength, crc16), flags,
                         [flags |-> flags, flagsAt |-> 0, refAt |-> 0, start |-> s.pos,
                          deltas |-> <<>>, fnAt |-> <<>>, tailCount |-> 0, refCount |-> 0],
                         ver) : l \in {ReadVersioned(s, ver)}})

----------------------------------------------------------------------------
(* Gate and header                                                         *)

HeaderInit ==
    [version |-> 0, arch |-> 0, fileTypes |-> U32Zero, osTypes |-> 0, appTypes |-> 0,
     features |-> 0, oldNFunctions |-> 0, crc16 |-> 0, ctype |-> <<>>,
     libraryNameLen |-> 0, ctypesCrc16 |-> 0, nFunctions |-> U32Zero,
     patternSize |-> 0, unknownV10 |-> 0]

ResultInit ==
    [success |-> FALSE, errorMessage |-> "", libraryName |-> <<>>,
     header |-> HeaderInit, modules |-> <<>>]

\* isFlirt without the lower bound of line 135
isFlirtNoLowerBound(d, ver) ==
    IF Len(d) < 7 THEN [ok |-> FALSE, version |-> ver]
    ELSE IF SubSeq(d, 1, 6) # Magic THEN [ok |-> FALSE, version |-> ver]
    ELSE [ok |-> d[7] <= 10, version |-> d[7]]

\* isFlirt(data, &st.version): ver is the value left in *outVersion
isFlirt(d, ver) ==
    IF Len(d) < 7 THEN [ok |-> FALSE, version |-> ver]
    ELSE IF SubSeq(d, 1, 6) # Magic THEN [ok |-> FALSE, version |-> ver]
    ELSE [ok |-> d[7] >= 5 /\ d[7] <= 10, version |-> d[7]]

\* b[i] of the C++ code (0-based) and the inline little/big-endian reads
At(b, i) == b[i + 1]
LE16(b, i) == At(b, i) + 256 * At(b, i + 1)
LE32(b, i) == <<LE16(b, i + 2), LE16(b, i)>>
BE16(b, i) == 256 * At(b, i) + At(b, i + 1)

\* the fixed v5 part, lines 160-179 (pos = 7 on entry, 37 on exit)
HeaderV5(b, ver) ==
    [HeaderInit EXCEPT
        !.version = ver, !.arch = At(b, 7), !.fileTypes = LE32(b, 8),
        !.osTypes = LE16(b, 12), !.appTypes = LE16(b, 14), !.features = LE16(b, 16),
        !.oldNFunctions = LE16(b, 18), !.crc16 = LE16(b, 20),
        !.ctype = SubSeq(b, 23, 34), !.libraryNameLen = At(b, 34),
        !.ctypesCrc16 = LE16(b, 35)]

\* lines 181-195 without the version-10 section of lines 189-193
HeaderExtNoV10(b, ver, h) ==
    IF ver < 6 THEN [msg |-> "", pos |-> 37, header |-> h]
    ELSE IF 37 + 4 > Len(b) THEN [msg |-> "Truncated v6/v7 header", pos |-> 37, header |-> h]
    ELSE IF ver < 8
    THEN [msg |-> "", pos |-> 41, header |-> [h EXCEPT !.nFunctions = LE32(b, 37)]]
    ELSE IF 41 + 2 > Len(b)
    THEN [msg |-> "Truncated v8/v9 header", pos |-> 41,
          header |-> [h EXCEPT !.nFunctions = LE32(b, 37)]]
    ELSE [msg |-> "", pos |-> 43,
          header |-> [h EXCEPT !.nFunctions = LE32(b, 37), !.patternSize = BE16(b, 41)]]

\* the version-conditional part, lines 181-195, from pos = 37
HeaderExt(b, ver, h) ==
    IF ver < 6 THEN [msg |-> "", pos |-> 37, header |-> h]
    ELSE IF 37 + 4 > Len(b) THEN [msg |-> "Truncated v6/v7 header", pos |-> 37, header |-> h]
    ELSE LET h6 == [h EXCEPT !.nFunctions = LE32(b, 37)]
         IN  IF ver < 8 THEN [msg |-> "", pos |-> 41, header |-> h6]
             ELSE IF 41 + 2 > Len(b)
             THEN [msg |-> "Truncated v8/v9 header", pos |-> 41, header |-> h6]
             ELSE LET h8 == [h6 EXCEPT !.patternSize = BE16(b, 41)]
                  IN  IF ver < 10 THEN [msg |-> "", pos |-> 43, header |-> h8]
                      ELSE IF 43 + 2 > Len(b)
                      THEN [msg |-> "Truncated v10 header", pos |-> 43, header |-> h8]
                      ELSE [msg |-> "", pos |-> 45,
                            header |-> [h8 EXCEPT !.unknownV10 = BE16(b, 43)]]

\* parseHeader: what it leaves in st.version, st.pos, result.header,
\* result.libraryName and result.errorMessage (msg = "" on success).  The
\* message of line 150 stands without the version number it ends with.
parseHeader(b, ver0) ==
    LET out(m, v, p, h, n) ==
            [msg |-> m, version |-> v, pos |-> p, header |-> h, libraryName |-> n]
    IN  IF Len(b) < 7 THEN out("File too short", ver0, 0, HeaderInit, <<>>)
        ELSE IF SubSeq(b, 1, 6) # Magic
        THEN out("Invalid magic (not IDASGN)", ver0, 0, HeaderInit, <<>>)
        ELSE LET ver == At(b, 6)
             IN  IF ver < 5 \/ ver > 10
                 THEN out("Unsupported FLIRT version", ver, 7, HeaderInit, <<>>)
                 ELSE IF 7 + 30 > Len(b)
                 THEN out("Truncated v5 header", ver, 7, HeaderInit, <<>>)
                 ELSE LET e == HeaderExt(b, ver, HeaderV5(b, ver))
                          n == e.header.libraryNameLen
                      IN  IF e.msg # "" THEN out(e.msg, ver, e.pos, e.header, <<>>)
                          ELSE IF e.pos + n > Len(b)
                          THEN out("Truncated library name", ver, e.pos, e.header, <<>>)
                          ELSE out("", ver, e.pos + n, e.header,
                                   fromLatin1(SubSeq(b, e.pos + 1, e.pos + n)))

----------------------------------------------------------------------------
(* Tree walk: activation records                                           *)

\* One activation of parseTree (at = "enter", "loop") which, at a leaf,
\* continues as the activation of parseLeaf (at = "crc", "module").
\* leafAt and crcAt are history: where the leaf and its current CRC block
\* begin in body.
Frame(path) ==
    [at |-> "enter", path |-> path, treeNodes |-> U32Zero, i |-> 0,
     node |-> EmptyNode, crcLength |-> 0, crc16 |-> 0, flags |-> 0,
     leafAt |-> 0, crcAt |-> 0]

\* the node put in front of the path instead of behind it
ChildPathReversed(path, node) == <<node>> \o path

\* lines 394-395: the child's path is a copy of path with node appended
ChildPath(path, node) == Append(path, node)

\* `return true` of the top activation: control is back in the caller's
\* loop of line 386, after its ++i
ReturnTrue(stk) ==
    LET n == Len(stk)
    IN  IF n = 1 THEN <<>>
        ELSE [SubSeq(stk, 1, n - 1) EXCEPT ![n - 1].i = @ + 1]

\* line 437 without its test: the generic message replaces any other
TreeFailedOverwrite(res) == [res EXCEPT !.errorMessage = MsgTreeGeneric]

\* lines 436-438 after parseTree returned false
TreeFailed(res) ==
    IF res.errorMessage = "" THEN [res EXCEPT !.errorMessage = MsgTreeGeneric] ELSE res

\* the `node` locals of the activations below the top one, root first
NodesOnStack(stk) == [k \in 1..(Len(stk) - 1) |-> stk[k].node]

----------------------------------------------------------------------------
(* Inputs of parse: .sig files built from the format's pieces, every       *)
(* truncation of each, and files the gate must reject.                     *)

MaxFns == 2         \* public functions per module in the generated files
MaxModules == 2     \* modules per leaf in the generated files
MaxDepth == 2       \* depth of the generated pattern trees
MaxChildren == 2    \* children per tree node in the generated files
MaxLeaves == 8      \* leaves per generated pattern tree

Cat(S, T) == {x \o y : x \in S, y \in T}

Prefixes(S) == UNION {{SubSeq(x, 1, n) : n \in 0..Len(x)} : x \in S}

RECURSIVE ConcatAll(_)
ConcatAll(ss) == IF ss = <<>> THEN <<>> ELSE Head(ss) \o ConcatAll(Tail(ss))

Fill(n, x) == [k \in 1..n |-> x]

Versions == 5..10

\* the header of a version-ver file with the given features low byte and
\* library name (layout of lines 154-202)
HeaderEnc(ver, feat, name) ==
    Magic \o <<ver>> \o <<0>> \o <<4, 0, 0, 0>> \o <<2, 0>> \o <<4, 1>> \o <<feat, 0>>
    \o <<3, 0>> \o <<171, 205>> \o Fill(12, 1) \o <<Len(name)>> \o <<17, 34>>
    \o (IF ver >= 6 THEN <<1, 2, 3, 4>> ELSE <<>>)
    \o (IF ver >= 8 THEN <<0, 32>> ELSE <<>>)
    \o (IF ver >= 10 THEN <<0, 1>> ELSE <<>>)
    \o name

CrcEnc == <<4, 18, 52>>

\* deltas / offsets as the version writes them: 0, 8 and the largest value
DeltaEnc(ver) ==
    IF ver >= 9 THEN {<<0>>, <<8>>, <<255, 255, 255, 255, 255>>}
    ELSE {<<0>>, <<8>>, <<255, 255>>}

\* a public function without its terminating byte: delta, optional
\* attribute byte, name
FuncEnc(ver) == {d \o a \o <<65>> : d \in DeltaEnc(ver), a \in {<<>>, <<10>>}}

\* 1..n public functions, joined by a flags byte with MORE_PUBLIC_NAMES
RECURSIVE FuncListEnc(_, _)
FuncListEnc(ver, n) ==
    IF n = 0 THEN {}
    ELSE FuncEnc(ver) \cup {f \o <<1>> \o r : f \in FuncEnc(ver), r \in FuncListEnc(ver, n - 1)}

TailEnc(ver) ==
    IF ver >= 8 THEN {<<0>>, <<1, 3, 85>>, <<2, 3, 85, 4, 102>>}
    ELSE {<<3, 85>>}

\* referenced-function records: name "fg", name "f" + NUL, a length given
\* by a multi after a 0 byte, a lone NUL, and a length of 1024
RefRecEnc ==
    {<<5, 2, 102, 103>>, <<5, 2, 102, 0>>, <<5, 0, 1, 102>>, <<5, 1, 0>>, <<5, 0, 132, 0>>}

RefEnc(ver) ==
    IF ver >= 8
    THEN {<<0>>} \cup Cat({<<1>>}, RefRecEnc) \cup {<<2, 5, 2, 102, 103, 5, 2, 102, 0>>}
    ELSE RefRecEnc

ModFlags == {0, 2, 4, 6, 8, 16, 24}

\* a module with one public function and terminating flags byte f
ModuleEnc(ver, f) ==
    Cat(Cat({<<5, 8, 65, f>>},
            IF HasBit(f, IDASIG_PARSE_READ_TAIL_BYTES) THEN TailEnc(ver) ELSE {<<>>}),
        IF HasBit(f, IDASIG_PARSE_READ_REFERENCED_FUNCTIONS) THEN RefEnc(ver) ELSE {<<>>})

\* up to n modules of one leaf, chained by their flags bytes
RECURSIVE ChainEnc(_, _)
ChainEnc(ver, n) ==
    IF n = 0 THEN {<<>>}
    ELSE UNION {Cat(ModuleEnc(ver, f),
                    IF HasBit(f, IDASIG_PARSE_MORE_MODULES_WITH_SAME_CRC)
                    THEN ChainEnc(ver, n - 1)
                    ELSE IF HasBit(f, IDASIG_PARSE_MORE_MODULES)
                    THEN Cat({<<7, 86, 120>>}, ChainEnc(ver, n - 1))
                    ELSE {<<>>}) : f \in ModFlags}

\* single-leaf files: function lists, and module chains
LeafFilesEnc(ver) ==
    Cat({<<0>> \o CrcEnc \o <<5>>}, Cat(FuncListEnc(ver, MaxFns), {<<0>>}))
    \cup Cat({<<0>> \o CrcEnc}, ChainEnc(ver, MaxModules))

\* leaves used under a tree: one module; two CRC blocks; two modules of
\* one CRC block
SmallLeafEnc ==
    {<<0, 4, 18, 52, 5, 8, 65, 0>>,
     <<0, 4, 18, 52, 5, 8, 65, 16, 7, 86, 120, 5, 8, 66, 0>>,
     <<0, 4, 18, 52, 5, 8, 65, 8, 5, 8, 66, 0>>}

\* the pattern node written before child j of a level-lvl tree node: one
\* concrete byte naming the position
NodeAt(lvl, j) == <<1, 0, 16 * lvl + j>>

\* the uniform tree of depth d with c children per node over leaf lf
RECURSIVE UTreeEnc(_, _, _, _)
UTreeEnc(d, c, lvl, lf) ==
    IF d = 0 THEN lf
    ELSE <<c>> \o ConcatAll([j \in 1..c |-> NodeAt(lvl, j) \o UTreeEnc(d - 1, c, lvl + 1, lf)])

\* a root with c children, child k a uniform subtree, the others leaves
MixedTreeEnc(d, c, k, lf) ==
    <<c>> \o ConcatAll([j \in 1..c |->
        NodeAt(0, j) \o (IF j = k THEN UTreeEnc(d - 1, c, 1, lf) ELSE lf)])

\* the number of leaves of the uniform tree of depth d with c children
RECURSIVE UTreeLeaves(_, _)
UTreeLeaves(d, c) == IF d = 0 THEN 1 ELSE c * UTreeLeaves(d - 1, c)

\* the shapes <<depth, width>> tried: those with at most MaxLeaves leaves
TreeShapes ==
    {sh \in (1..MaxDepth) \X (1..MaxChildren) : UTreeLeaves(sh[1], sh[2]) <= MaxLeaves}

TreeFilesEnc ==
    {UTreeEnc(sh[1], sh[2], 0, lf) : sh \in TreeShapes, lf \in SmallLeafEnc}
    \cup UNION {{MixedTreeEnc(sh[1], sh[2], k, lf) : k \in 1..sh[2]} :
                    sh \in {t \in TreeShapes : t[1] >= 2 /\ t[2] >= 2}, lf \in SmallLeafEnc}

\* pattern nodes of every mask width, and node lengths the decoder rejects
NodeKindsEnc ==
    {<<1, 0, 144>>, <<2, 1, 144>>, <<2, 2, 144>>, <<2, 3>>, <<15, 255, 255>>,
     <<16, 192, 0, 255, 255>>, <<16, 192, 0, 255, 254, 145>>,
     <<32, 255, 255, 255, 255, 255>>,
     <<33, 1, 255, 255, 255, 255, 255>>, <<33, 0, 1>> \o Fill(32, 146),
     <<63, 224, 127, 255, 255, 255, 255, 255, 255, 255, 255>>,
     <<0, 0>>, <<64, 0, 0>>, <<65, 0, 0>>, <<200, 0, 0>>}

NodeFilesEnc == {<<1>> \o n \o <<0, 4, 18, 52, 5, 8, 65, 0>> : n \in NodeKindsEnc}

\* the versions the pattern trees are tried with: their leaves are written
\* the same for every version
TreeVersions == {5, 10}

\* tree bodies of a version-ver file, with every truncation
Bodies(ver) ==
    Prefixes(LeafFilesEnc(ver) \cup NodeFilesEnc
             \cup (IF ver \in TreeVersions THEN TreeFilesEnc ELSE {}))

GoodFile(ver) == HeaderEnc(ver, 0, <<76, 98>>) \o <<0, 4, 18, 52, 5, 8, 65, 0>>

\* files the gate must reject: short ones, a wrong magic, a version
\* outside 5..10, each otherwise a complete file
GateFiles ==
    Prefixes({Magic \o <<5>>})
    \cup {[GoodFile(5) EXCEPT ![k] = 88] : k \in 1..6}
    \cup {[GoodFile(10) EXCEPT ![7] = v] : v \in {0, 4, 11, 255}}

\* every truncation of a complete file of each version, and the complete
\* file with a library name length it is too short for
HeaderFiles ==
    UNION {Prefixes({GoodFile(ver)}) : ver \in Versions}
    \cup {[GoodFile(ver) EXCEPT ![35] = 255] : ver \in Versions}

\* files whose header marks the body compressed
CompressedFiles == {HeaderEnc(ver, 16, <<>>) \o <<120, 1, 2>> : ver \in {5, 7, 10}}

\* single-module files with a public name of n bytes 'A', n around
\* FLIRT_NAME_MAX, followed by a space or not, and the terminating byte 0
LongNameFiles ==
    {HeaderEnc(5, 0, <<>>) \o <<0, 4, 18, 52, 5, 8>> \o Fill(n, 65) \o sp \o <<0>> :
        n \in (FLIRT_NAME_MAX - 1)..(FLIRT_NAME_MAX + 1), sp \in {<<>>, <<32>>}}

\* a tree-node count of 0xffffffff over two children, with every truncation
HugeCountFiles ==
    Cat({HeaderEnc(5, 0, <<>>)},
        Prefixes({<<255, 255, 255, 255, 255>>
                  \o NodeAt(0, 1) \o <<0, 4, 18, 52, 5, 8, 65, 0>>
                  \o NodeAt(0, 2) \o <<0, 4, 18, 52, 5, 8, 66, 0>>}))

\* a tail-byte count and a referenced-function count of 255 over two
\* entries
BigCountFiles ==
    {HeaderEnc(8, 0, <<>>) \o <<0, 4, 18, 52, 5, 8, 65, 2, 255, 1, 7, 2, 7>>,
     HeaderEnc(8, 0, <<>>) \o <<0, 4, 18, 52, 5, 8, 65, 4, 255, 1, 1, 102, 2, 1, 103>>}

Inputs ==
    GateFiles \cup HeaderFiles \cup CompressedFiles \cup LongNameFiles
    \cup HugeCountFiles \cup BigCountFiles
    \cup UNION {Cat({HeaderEnc(ver, 0, <<>>)}, Bodies(ver)) : ver \in Versions}

\* decompressZlib is zlib's inflate: what it returns for a given stream is
\* outside this code.  It returns an empty array on failure, else the
\* inflated tree body; a build without HAVE_ZLIB has no decompression.
InflateOutcomes ==
    {<<>>} \cup Prefixes({<<0, 4, 18, 52, 5, 8, 65, 0>>, <<1, 1, 0, 144, 0, 4, 18, 52, 5, 8, 65, 0>>})

----------------------------------------------------------------------------
(* FlirtParser::parse, step by step                                        *)

HistInit == [modules |-> <<>>, fail |-> "none"]

Init ==
    /\ data \in Inputs
    /\ body = data
    /\ st = StInit
    /\ version = 0
    /\ pc = "start"
    /\ stack = <<>>
    /\ result = ResultInit
    /\ hist = HistInit
    /\ prim = <<>>

\* lines 409-412
Gate ==
    /\ pc = "start"
    /\ \E g \in {isFlirt(data, version)} :
           /\ version' = g.version
           /\ IF g.ok
              THEN pc' = "header" /\ result' = result
              ELSE pc' = "done" /\ result' = [result EXCEPT !.errorMessage = MsgNotFlirt]
    /\ UNCHANGED <<data, body, st, stack, hist, prim>>

\* line 414 with parseHeader's outcome h, then the test of line 416 and
\* the call of line 436
HeaderWith(h) ==
    /\ version' = h.version
    /\ st' = [st EXCEPT !.pos = h.pos]
    /\ result' = [result EXCEPT !.errorMessage = h.msg, !.header = h.header,
                                !.libraryName = h.libraryName]
    /\ IF h.msg # "" THEN pc' = "done" /\ stack' = stack
       ELSE IF HasBit(h.header.features, IDASIG_FEATURE_COMPRESSED)
       THEN pc' = "inflate" /\ stack' = stack
       ELSE pc' = "tree" /\ stack' = <<Frame(<<>>)>>

Header ==
    /\ pc = "header"
    /\ \E h \in {parseHeader(body, version)} : HeaderWith(h)
    /\ UNCHANGED <<data, body, hist, prim>>

\* lines 417-432
Inflate ==
    /\ pc = "inflate"
    /\ \/ /\ result' = [result EXCEPT !.errorMessage = MsgNoZlib]
          /\ pc' = "done"
          /\ UNCHANGED <<body, st, stack>>
       \/ \E out \in InflateOutcomes :
            IF out = <<>>
            THEN /\ result' = [result EXCEPT !.errorMessage = MsgInflateFailed]
                 /\ pc' = "done"
                 /\ UNCHANGED <<body, st, stack>>
            ELSE /\ body' = out
                 /\ st' = [st EXCEPT !.pos = 0, !.eof = FALSE, !.err = FALSE]
                 /\ pc' = "tree"
                 /\ stack' = <<Frame(<<>>)>>
                 /\ result' = result
    /\ UNCHANGED <<data, version, hist, prim>>

Top == stack[Len(stack)]

SetTop(f) == [stack EXCEPT ![Len(stack)] = f]

\* parseTree returned false to parse: lines 436-438.  where names the read
\* that failed: count, node, crc or module.
FailTree(s, res, where) ==
    /\ st' = s
    /\ result' = TreeFailed(res)
    /\ stack' = <<>>
    /\ pc' = "done"
    /\ hist' = [hist EXCEPT !.fail = where]

\* lines 379-385 with the tree-node count r read
TreeEnterWith(r) ==
    IF EofErr(r.st)
    THEN FailTree(r.st, [result EXCEPT !.errorMessage = MsgTreeEof], "count")
    ELSE /\ st' = r.st
         /\ stack' = SetTop([Top EXCEPT
                       !.treeNodes = r.v,
                       !.at = IF r.v = U32Zero THEN "crc" ELSE "loop",
                       !.leafAt = r.st.pos, !.crcAt = r.st.pos])
         /\ UNCHANGED <<pc, result, hist>>

\* lines 378-385: the tree-node count of a new activation
TreeEnter ==
    /\ pc = "tree" /\ stack # <<>> /\ Top.at = "enter"
    /\ \E r \in {readMultipleBytes(st)} : TreeEnterWith(r)
    /\ UNCHANGED <<data, body, version, prim>>

\* lines 393-396 with the node n decoded
TreeChildWith(n) ==
    IF ~n.ok THEN FailTree(n.st, result, "node")
    ELSE /\ st' = n.st
         /\ stack' = Append(SetTop([Top EXCEPT !.node = n.node]),
                            Frame(ChildPath(Top.path, n.node)))
         /\ UNCHANGED <<pc, result, hist>>

\* lines 386-396: one iteration of the child loop up to the recursive call
TreeChild ==
    /\ pc = "tree" /\ stack # <<>> /\ Top.at = "loop"
    /\ IntLessU32(Top.i, Top.treeNodes)
    /\ \E n \in {DecodeNode(st, ord) : ord \in EvalOrders} : TreeChildWith(n)
    /\ UNCHANGED <<data, body, version, prim>>

\* line 386 with i = treeNodes, line 398
TreeReturn ==
    /\ pc = "tree" /\ stack # <<>> /\ Top.at = "loop"
    /\ ~IntLessU32(Top.i, Top.treeNodes)
    /\ stack' = ReturnTrue(stack)
    /\ UNCHANGED <<data, body, st, version, pc, result, hist, prim>>

\* lines 350-352 with crcLength c and crc16 k read
LeafCrcWith(c, k) ==
    IF EofErr(c.st) THEN FailTree(c.st, result, "crc")
    ELSE IF EofErr(k.st) THEN FailTree(k.st, result, "crc")
    ELSE /\ st' = k.st
         /\ stack' = SetTop([Top EXCEPT !.crcLength = c.v, !.crc16 = k.v,
                                        !.crcAt = st.pos, !.at = "module"])
         /\ UNCHANGED <<pc, result, hist>>

LeafCrcSecond(c) == \E k \in {readShortBE(c.st)} : LeafCrcWith(c, k)

\* lines 348-351: the header of a CRC block
LeafCrc ==
    /\ pc = "tree" /\ stack # <<>> /\ Top.at = "crc"
    /\ \E c \in {readByte(st)} : LeafCrcSecond(c)
    /\ UNCHANGED <<data, body, version, prim>>

\* the module put in front of the list
AppendModulePrepend(mods, mod) == <<mod>> \o mods

\* result.modules.append(mod), line 371
AppendModule(mods, mod) == Append(mods, mod)

\* the outer test made before the inner one
LeafContinueMoreFirst(flags) ==
    IF HasBit(flags, IDASIG_PARSE_MORE_MODULES) THEN "crc"
    ELSE IF HasBit(flags, IDASIG_PARSE_MORE_MODULES_WITH_SAME_CRC) THEN "module"
    ELSE "return"

\* the two loop tests of lines 372-373 and the return of line 374: where
\* parseLeaf goes on after a module with this flags value
LeafContinue(flags) ==
    IF HasBit(flags, IDASIG_PARSE_MORE_MODULES_WITH_SAME_CRC) THEN "module"
    ELSE IF HasBit(flags, IDASIG_PARSE_MORE_MODULES) THEN "crc"
    ELSE "return"

\* lines 371-374 with the module m decoded: append, the two loop tests,
\* the return
LeafModuleWith(m) ==
    IF ~m.ok THEN FailTree(m.st, result, "module")
    ELSE /\ st' = m.st
         /\ result' = [result EXCEPT !.modules = AppendModule(@, m.mod)]
         /\ hist' = [hist EXCEPT !.modules = Append(@,
                [flags |-> m.h.flags, flagsAt |-> m.h.flagsAt, refAt |-> m.h.refAt,
                 start |-> m.h.start, end |-> m.st.pos, deltas |-> m.h.deltas,
                 fnAt |-> m.h.fnAt,
                 tailCount |-> m.h.tailCount, refCount |-> m.h.refCount,
                 leafAt |-> Top.leafAt, crcAt |-> Top.crcAt,
                 nodes |-> NodesOnStack(stack)])]
         /\ stack' =
              IF LeafContinue(m.flags) = "return" THEN ReturnTrue(stack)
              ELSE SetTop([Top EXCEPT !.flags = m.flags, !.at = LeafContinue(m.flags)])
         /\ pc' = pc

\* lines 353-374: one module
LeafModuleStep ==
    /\ pc = "tree" /\ stack # <<>> /\ Top.at = "module"
    /\ \E m \in {LeafModule(st, version, Top.path, Top.crcLength, Top.crc16, Top.flags)} :
          LeafModuleWith(m)
    /\ UNCHANGED <<data, body, version, prim>>

\* lines 441-442
Succeed ==
    /\ pc = "tree" /\ stack = <<>>
    /\ result' = [result EXCEPT !.success = TRUE]
    /\ pc' = "done"
    /\ UNCHANGED <<data, body, st, version, stack, hist, prim>>

Next ==
    \/ Gate
    \/ Header
    \/ Inflate
    \/ TreeEnter
    \/ TreeChild
    \/ TreeReturn
    \/ LeafCrc
    \/ LeafModuleStep
    \/ Succeed

Spec == Init /\ [][Next]_vars

\* parse is one call that nothing suspends (no thread, no callback, no
\* wait): a step that can be taken is taken
SpecFair == Spec /\ WF_vars(Next)

----------------------------------------------------------------------------
(* Properties of FlirtParser::parse                                        *)

Done == pc = "done"

\* the input fails the gate: shorter than 7 bytes, or not starting with
\* "IDASGN", or a 7th byte outside 5..10
FailsGate(d) ==
    \/ Len(d) < 7
    \/ \E k \in 1..6 : d[k] # Magic[k]
    \/ d[7] < 5 \/ d[7] > 10

\* C1: an input that is shorter than 7 bytes, or does not start with
\* "IDASGN", or has a 7th byte outside 5..10, is answered with success =
\* false and "Not a valid FLIRT .sig file"; no header field, library name
\* or module is decoded, and no byte of the body is read.
GateRejects ==
    (FailsGate(data) /\ pc # "start") =>
        /\ Done
        /\ ~result.success
        /\ result.errorMessage = MsgNotFlirt
        /\ result.header = HeaderInit
        /\ result.libraryName = <<>>
        /\ result.modules = <<>>
        /\ st = StInit

\* a complete file with the right magic and version byte 11 was rejected
GateRejectsWitness ==
    /\ Done
    /\ Len(data) > 37 /\ SubSeq(data, 1, 6) = Magic /\ data[7] = 11
    /\ result.errorMessage = MsgNotFlirt

\* C2 as stated: a failed parse returns an empty modules list
NoPartialModules == (Done /\ ~result.success) => result.modules = <<>>

\* C3: a successful parse ends with eof clear and the cursor inside the
\* body, and no read of it returned the 0 of a read past the end.
NoSaturatedReadAccepted ==
    result.success => ~st.eof /\ ~st.err /\ ~st.sat /\ st.pos <= Len(body)

\* a parse succeeded on a body it consumed to the last byte, below a
\* pattern node whose last byte is concrete
NoSaturatedReadWitness ==
    /\ result.success
    /\ st.pos = Len(body)
    /\ \E i \in 1..Len(result.modules) :
          LET path == result.modules[i].patternPath
          IN  /\ path # <<>>
              /\ path[Len(path)].variantMask[Len(path[Len(path)].variantMask)] = 0

ModuleIds == 1..Len(result.modules)

\* the terminating flags byte of module i as it stands in the body
FlagsByte(i) == body[hist.modules[i].flagsAt]

\* C4 as stated: on success a module's tailBytes is non-empty iff its
\* flags byte has bit 0x02, its referencedFunctions iff it has bit 0x04
FlagFidelity ==
    result.success =>
        \A i \in ModuleIds :
            /\ (result.modules[i].tailBytes # <<>>)
                  <=> HasBit(FlagsByte(i), IDASIG_PARSE_READ_TAIL_BYTES)
            /\ (result.modules[i].referencedFunctions # <<>>)
                  <=> HasBit(FlagsByte(i), IDASIG_PARSE_READ_REFERENCED_FUNCTIONS)

\* the count a list is read with: 1 before version 8, from version 8 on
\* the byte at the cursor `at`
CountAt(at) == IF version >= 8 THEN body[at + 1] ELSE 1

\* C4: on success a module's tailBytes is empty when its flags byte lacks
\* bit 0x02 and otherwise has as many entries as the count says (1 before
\* version 8, the count byte from version 8 on, which may be 0);
\* likewise referencedFunctions with bit 0x04.
FlagFidelityByCount ==
    result.success =>
        \A i \in ModuleIds :
            /\ IF HasBit(FlagsByte(i), IDASIG_PARSE_READ_TAIL_BYTES)
               THEN Len(result.modules[i].tailBytes) = CountAt(hist.modules[i].flagsAt)
               ELSE result.modules[i].tailBytes = <<>>
            /\ IF HasBit(FlagsByte(i), IDASIG_PARSE_READ_REFERENCED_FUNCTIONS)
               THEN Len(result.modules[i].referencedFunctions) = CountAt(hist.modules[i].refAt)
               ELSE result.modules[i].referencedFunctions = <<>>

\* a version >= 8 parse succeeded with a module whose flags byte has bits
\* 0x02 and 0x04, whose tail count byte is 0 and which has two referenced
\* functions
FlagFidelityWitness ==
    /\ result.success
    /\ version >= 8
    /\ \E i \in ModuleIds :
          /\ HasBit(FlagsByte(i), IDASIG_PARSE_READ_TAIL_BYTES)
          /\ HasBit(FlagsByte(i), IDASIG_PARSE_READ_REFERENCED_FUNCTIONS)
          /\ result.modules[i].tailBytes = <<>>
          /\ Len(result.modules[i].referencedFunctions) = 2

\* a + d on three 16-bit limbs, d a quint32: no wrap below 2^48
WideAdd(a, d) ==
    <<a[1] + ((a[2] + d[1] + ((a[3] + d[2]) \div 65536)) \div 65536),
      (a[2] + d[1] + ((a[3] + d[2]) \div 65536)) % 65536,
      (a[3] + d[2]) % 65536>>

\* the arithmetic sum of the first k entries of ds
RECURSIVE WideSum(_, _)
WideSum(ds, k) == IF k = 0 THEN <<0, 0, 0>> ELSE WideAdd(WideSum(ds, k - 1), ds[k])

FunctionsOf(i) == result.modules[i].publicFunctions

\* C5 as stated: on success the offsets of a module's functions never
\* decrease and the k-th is the arithmetic sum of the first k deltas
OffsetsMonotoneSum ==
    result.success =>
        \A i \in ModuleIds : \A k \in 1..Len(FunctionsOf(i)) :
            /\ WideSum(hist.modules[i].deltas, k) = <<0>> \o FunctionsOf(i)[k].offset
            /\ k > 1 => U32Leq(FunctionsOf(i)[k - 1].offset, FunctionsOf(i)[k].offset)

\* C5: on success a module has one function per delta, the k-th offset is
\* the sum of the first k deltas modulo 2^32, and an offset is below its
\* predecessor exactly when adding its delta wrapped around.
OffsetsSumMod32 ==
    result.success =>
        \A i \in ModuleIds :
            /\ Len(FunctionsOf(i)) = Len(hist.modules[i].deltas)
            /\ \A k \in 1..Len(FunctionsOf(i)) :
                /\ FunctionsOf(i)[k].offset = Tail(WideSum(hist.modules[i].deltas, k))
                /\ k > 1 =>
                    (U32Leq(FunctionsOf(i)[k - 1].offset, FunctionsOf(i)[k].offset)
                       <=> WideAdd(<<0>> \o FunctionsOf(i)[k - 1].offset,
                                   hist.modules[i].deltas[k])[1] = 0)

\* a version >= 9 parse succeeded with a module whose second offset is
\* below its first: delta 0xffffffff after offset 8
OffsetsWitness ==
    /\ result.success
    /\ version >= 9
    /\ \E i \in ModuleIds :
          /\ Len(FunctionsOf(i)) = 2
          /\ FunctionsOf(i)[1].offset = <<0, 8>>
          /\ hist.modules[i].deltas[2] = <<65535, 65535>>
          /\ FunctionsOf(i)[2].offset = <<0, 7>>

\* the module decoded from the bytes where module i was read
ModuleAt(i) ==
    LeafModule([StInit EXCEPT !.pos = hist.modules[i].start], version,
               result.modules[i].patternPath, result.modules[i].crcLength,
               result.modules[i].crc16, 0)

\* modules stand in the order of their bytes: the last module is the one
\* decoded from the bytes where it was read (the earlier ones were the last
\* before it); the bytes of module i end before those of module i + 1
\* begin; leaves come in the order of their bytes; and the modules of one
\* leaf are neighbours (two modules of one leaf have between them only
\* modules of that leaf: the successor of the first is one, and so on up to
\* the second)
ModulesInBodyOrder ==
    /\ Len(hist.modules) = Len(result.modules)
    /\ result.modules # <<>> =>
          LET m == ModuleAt(Len(result.modules))
          IN  m.ok /\ m.mod = result.modules[Len(result.modules)]
    /\ \A i \in ModuleIds :
          /\ hist.modules[i].start < hist.modules[i].end
          /\ i > 1 => /\ hist.modules[i - 1].end <= hist.modules[i].start
                      /\ hist.modules[i - 1].leafAt <= hist.modules[i].leafAt
    /\ \A i, j \in ModuleIds :
          (i < j /\ hist.modules[i].leafAt = hist.modules[j].leafAt) =>
              hist.modules[i + 1].leafAt = hist.modules[i].leafAt

\* a step leaves result.modules alone or adds one module at its end
ModulesAppended ==
    \/ result.modules' = result.modules
    \/ \E m \in {result.modules'[Len(result.modules')]} :
          result.modules' = Append(result.modules, m)

\* C6: result.modules is only ever appended to, and after every step its
\* order is the order of the modules' bytes in the body (that of the
\* depth-first walk) and the modules of one leaf occupy a contiguous index
\* range.
DepthFirstOrder == [][ModulesAppended]_vars /\ []ModulesInBodyOrder

\* a parse succeeded with four modules from two leaves of two modules each
DepthFirstWitness ==
    /\ result.success
    /\ Len(result.modules) = 4
    /\ result.modules[1].patternPath # <<>>
    /\ hist.modules[1].leafAt = hist.modules[2].leafAt
    /\ hist.modules[3].leafAt = hist.modules[4].leafAt
    /\ hist.modules[2].leafAt < hist.modules[3].leafAt

\* C7: a module's patternPath is the sequence of nodes decoded by the
\* activations from the root to its leaf, root first; every activation is
\* walked with its parent's path plus the parent's current node, the root
\* with the empty path; the modules of one leaf carry equal paths.
PatternPathRootToLeaf ==
    /\ \A i \in ModuleIds : result.modules[i].patternPath = hist.modules[i].nodes
    /\ \A i, j \in ModuleIds :
          hist.modules[i].leafAt = hist.modules[j].leafAt =>
              result.modules[i].patternPath = result.modules[j].patternPath
    /\ \A k \in 1..Len(stack) :
          stack[k].path = IF k = 1 THEN <<>>
                          ELSE Append(stack[k - 1].path, stack[k - 1].node)

\* a parse succeeded with modules of two leaves at depth 2 below the same
\* first node and different second nodes, the later one after a sibling
\* subtree had been walked
PatternPathWitness ==
    /\ result.success
    /\ \E i, j \in ModuleIds :
          /\ i < j
          /\ Len(result.modules[i].patternPath) = 2
          /\ Len(result.modules[j].patternPath) = 2
          /\ result.modules[i].patternPath[1] = result.modules[j].patternPath[1]
          /\ result.modules[i].patternPath[2] # result.modules[j].patternPath[2]
          /\ result.modules[i].patternPath[1] # result.modules[i].patternPath[2]

\* C8 as stated: a parse that ran off the end of the body anywhere in the
\* tree walk fails with "Unexpected EOF in tree"
TreeEofMessage ==
    (Done /\ st.eof) => ~result.success /\ result.errorMessage = MsgTreeEof

\* C8: a parse that ran off the end of the body fails; the message is
\* "Unexpected EOF in tree" when the read that failed is a tree-node
\* count, and "Parse error in signature tree" when it is in a pattern
\* node, a CRC block header or a module.
TreeEofMessageByPlace ==
    (Done /\ st.eof) =>
        /\ ~result.success
        /\ hist.fail \in {"count", "node", "crc", "module"}
        /\ result.errorMessage =
              IF hist.fail = "count" THEN MsgTreeEof ELSE MsgTreeGeneric

\* parses ran off the end in a module, and in a tree-node count
TreeEofWitness ==
    /\ Done /\ st.eof
    /\ hist.fail = "module"
    /\ result.errorMessage = MsgTreeGeneric
    /\ result.modules # <<>>

----------------------------------------------------------------------------
(* readMultipleBytes on its own: encodings of a value, decoded             *)

\* the encodings of the quint32 v = <<hi, lo>> in the multi scheme: one
\* byte below 0x80, two bytes with prefix bits 10 below 0x4000, four bytes
\* with prefix bits 110 below 0x20000000, and a prefix byte 0xe0..0xff
\* followed by the four bytes of v for any v
MultiEncodings(v) ==
    (IF v[1] = 0 /\ v[2] < 128 THEN {<<v[2]>>} ELSE {})
    \cup (IF v[1] = 0 /\ v[2] < 16384
          THEN {<<128 + (v[2] \div 256), v[2] % 256>>} ELSE {})
    \cup (IF v[1] < 8192
          THEN {<<192 + (v[1] \div 256), v[1] % 256, v[2] \div 256, v[2] % 256>>}
          ELSE {})
    \cup {<<p, v[1] \div 256, v[1] % 256, v[2] \div 256, v[2] % 256>> : p \in {224, 255}}

\* the shortest encoding
EncodeMulti(v) ==
    CHOOSE e \in MultiEncodings(v) : \A f \in MultiEncodings(v) : Len(e) <= Len(f)

\* 0, 0x7f, 0x80, 0x7fff, 0x8000, 0x3fffff, 0x400000, 0xffffffff and the
\* other values around the limits of the four forms
MultiValues ==
    {<<hi, lo>> : hi \in {0, 63, 64, 8191, 8192, 65535},
                  lo \in {0, 127, 128, 16383, 16384, 32767, 32768, 65535}}

InitMulti ==
    /\ \E v \in MultiValues : \E e \in MultiEncodings(v) :
          /\ prim = [v |-> v, enc |-> e, got |-> U32Zero]
          /\ \E rest \in {<<>>, <<0>>, <<255, 255>>} : body = e \o rest
    /\ data = body
    /\ st = StInit
    /\ version = 0
    /\ pc = "multi"
    /\ stack = <<>>
    /\ result = ResultInit
    /\ hist = HistInit

MultiStepWith(r) ==
    /\ st' = r.st
    /\ prim' = [prim EXCEPT !.got = r.v]
    /\ pc' = "multiDone"

\* one call of readMultipleBytes
MultiStep ==
    /\ pc = "multi"
    /\ \E r \in {readMultipleBytes(st)} : MultiStepWith(r)
    /\ UNCHANGED <<data, body, version, stack, result, hist>>

NextMulti == MultiStep

SpecMulti == InitMulti /\ [][NextMulti]_vars

\* C10: readMultipleBytes on an encoding of v in the multi scheme returns
\* v, consumes exactly the encoding and leaves eof clear, for 0, 0x7f,
\* 0x80, 0x7fff, 0x8000, 0x3fffff, 0x400000, 0xffffffff (and the other
\* values tried).
MultiRoundTrip ==
    pc = "multiDone" =>
        /\ prim.got = prim.v
        /\ st.pos = Len(prim.enc)
        /\ ~st.eof /\ ~st.err /\ ~st.sat

\* 0x3fffff was decoded from its four-byte form, which ends the body
MultiRoundTripWitness ==
    /\ pc = "multiDone"
    /\ prim.v = <<63, 65535>>
    /\ prim.enc = <<192, 63, 255, 255>>
    /\ prim.enc = EncodeMulti(prim.v)
    /\ Len(body) = 4
    /\ prim.got = <<63, 65535>>

----------------------------------------------------------------------------
(* The node decoder on its own: nodes with one mask bit set                *)

MaxNodeLen == 63

\* the max2 encoding of x < 0x8000
EncodeMax2(x) == IF x < 128 THEN <<x>> ELSE <<128 + (x \div 256), x % 256>>

\* the 64-bit mask with only bit k set
MaskOfBit(k) == [j \in 1..4 |-> IF j = 4 - (k \div 16) THEN Pow2(k % 16) ELSE 0]

\* the mask m as it is written for a node of length len: max2, multi, or
\* the multi of the high word followed by the multi of the low word
EncodeMask(len, m) ==
    IF len < 16 THEN EncodeMax2(m[4])
    ELSE IF len <= 32 THEN EncodeMulti(<<m[3], m[4]>>)
    ELSE EncodeMulti(<<m[1], m[2]>>) \o EncodeMulti(<<m[3], m[4]>>)

\* the j-th concrete byte written for a node
ConcreteByte(j) == 100 + j

\* a node of length len with mask bit k set: length, mask, len - 1
\* concrete bytes
NodeEnc(len, k) ==
    <<len>> \o EncodeMask(len, MaskOfBit(k)) \o [j \in 1..(len - 1) |-> ConcreteByte(j)]

InitNode ==
    /\ \E len \in 1..MaxNodeLen : \E k \in 0..(len - 1) :
          /\ prim = [len |-> len, k |-> k, ok |-> FALSE, node |-> EmptyNode]
          /\ body = NodeEnc(len, k)
    /\ data = body
    /\ st = StInit
    /\ version = 0
    /\ pc = "node"
    /\ stack = <<>>
    /\ result = ResultInit
    /\ hist = HistInit

NodeStepWith(n) ==
    /\ st' = n.st
    /\ prim' = [prim EXCEPT !.ok = n.ok, !.node = n.node]
    /\ pc' = "nodeDone"

\* lines 387-392: one node decoded, in either order of evaluation
NodeStep ==
    /\ pc = "node"
    /\ \E n \in {DecodeNode(st, ord) : ord \in EvalOrders} : NodeStepWith(n)
    /\ UNCHANGED <<data, body, version, stack, result, hist>>

NextNode == NodeStep

SpecNode == InitNode /\ [][NextNode]_vars

----------------------------------------------------------------------------
(* readModuleReferencedFunctions on its own: one record                    *)

\* name lengths around the limits of the length byte and of FLIRT_NAME_MAX
RefNameLens ==
    {<<0, n>> : n \in {0, 1, 2, 3, 255, 256, 1023, 1024, 1025, 65535}}
    \cup {<<1, 0>>, <<65535, 65535>>}

\* the ways a name length is written: the length byte, or a 0 byte and a
\* multi
RefLenEncodings(n) ==
    (IF n[1] = 0 /\ n[2] >= 1 /\ n[2] <= 255 THEN {<<n[2]>>} ELSE {})
    \cup {<<0>> \o e : e \in MultiEncodings(n)}

\* n raw name bytes: n - 1 times the byte f, then the byte last; four bytes
\* stand behind a length the decoder refuses
RefRawBytes(n, f, last) ==
    IF n[1] > 0 \/ n[2] >= FLIRT_NAME_MAX THEN <<f, f, f, last>>
    ELSE IF n[2] = 0 THEN <<>>
    ELSE Fill(n[2] - 1, f) \o <<last>>

InitRef ==
    /\ \E ver \in {7, 8, 9} : \E n \in RefNameLens : \E le \in RefLenEncodings(n) :
       \E f \in {0, 102} : \E last \in {0, 103} : \E rest \in {<<>>, <<0>>} :
          /\ version = ver
          /\ prim = [n |-> n, raw |-> RefRawBytes(n, f, last),
                     head |-> (IF ver >= 8 THEN <<1>> ELSE <<>>) \o <<5>> \o le,
                     ok |-> FALSE, refs |-> <<>>]
          /\ body = prim.head \o prim.raw \o rest
    /\ data = body
    /\ st = StInit
    /\ pc = "ref"
    /\ stack = <<>>
    /\ result = ResultInit
    /\ hist = HistInit

RefStepWith(r) ==
    /\ st' = r.st
    /\ prim' = [prim EXCEPT !.ok = r.ok, !.refs = r.referencedFunctions]
    /\ pc' = "refDone"

\* one call of readModuleReferencedFunctions
RefStep ==
    /\ pc = "ref"
    /\ \E r \in {readModuleReferencedFunctions(st, version)} : RefStepWith(r)
    /\ UNCHANGED <<data, body, version, stack, result, hist>>

NextRef == RefStep

SpecRef == InitRef /\ [][NextRef]_vars

\* C11: a referenced-function record with name length n < 1024 (from the
\* length byte, or from the multi behind a 0 byte) consumes exactly n raw
\* bytes; when n > 0 and the last raw byte is 0 the entry has
\* negativeOffset and the first n - 1 bytes as its name, otherwise it has
\* no negativeOffset and all n bytes; with n >= 1024 the decoder fails.
RefNegativeOffsetRule ==
    pc = "refDone" =>
        IF prim.n[1] > 0 \/ prim.n[2] >= 1024
        THEN ~prim.ok
        ELSE /\ prim.ok
             /\ st.pos = Len(prim.head) + prim.n[2]
             /\ ~st.eof
             /\ Len(prim.refs) = 1
             /\ prim.refs[1].offset = <<0, 5>>
             /\ IF prim.n[2] > 0 /\ prim.raw[prim.n[2]] = 0
                THEN /\ prim.refs[1].negativeOffset
                     /\ prim.refs[1].name = SubSeq(prim.raw, 1, prim.n[2] - 1)
                ELSE /\ ~prim.refs[1].negativeOffset
                     /\ prim.refs[1].name = prim.raw

\* a record of 1023 raw bytes ending in 0, its length written as a multi,
\* was decoded to a name of 1022 bytes
RefNegativeOffsetWitness ==
    /\ pc = "refDone"
    /\ prim.n = <<0, 1023>>
    /\ prim.raw[1023] = 0 /\ prim.raw[1] = 102
    /\ prim.ok
    /\ Len(prim.refs[1].name) = 1022
    /\ prim.refs[1].negativeOffset

----------------------------------------------------------------------------
(* Properties of the header decoder                                        *)

\* where the library name begins in a version-v file
HeaderFixedSize(v) ==
    37 + (IF v >= 6 THEN 4 ELSE 0) + (IF v >= 8 THEN 2 ELSE 0) + (IF v = 10 THEN 2 ELSE 0)

\* the whole header fits in d: the fixed part and libraryNameLen (the
\* byte at offset 34) bytes of name
HeaderFits(d) == Len(d) >= 37 /\ Len(d) >= HeaderFixedSize(d[7]) + d[35]

\* the message of the first section that does not fit in d
FirstShortSection(d) ==
    IF Len(d) < 37 THEN "Truncated v5 header"
    ELSE IF d[7] >= 6 /\ Len(d) < 41 THEN "Truncated v6/v7 header"
    ELSE IF d[7] >= 8 /\ Len(d) < 43 THEN "Truncated v8/v9 header"
    ELSE IF d[7] = 10 /\ Len(d) < 45 THEN "Truncated v10 header"
    ELSE "Truncated library name"

HeaderMessages ==
    {"Truncated v5 header", "Truncated v6/v7 header", "Truncated v8/v9 header",
     "Truncated v10 header", "Truncated library name", "File too short",
     "Invalid magic (not IDASGN)", "Unsupported FLIRT version"}

\* parseHeader has just returned true: nothing of the body is read yet
JustAfterHeader ==
    \/ pc = "inflate"
    \/ pc = "tree" /\ body = data /\ Len(stack) = 1 /\ stack[1].at = "enter"

\* C12: for an input that passes the gate, the header is decoded iff the
\* input holds the fixed part for its version and libraryNameLen bytes of
\* name; then the cursor stands right behind the name and libraryName is
\* those bytes; otherwise parse fails with the message of the first
\* section that does not fit and no read went past the end of the input.
HeaderLengthRule ==
    (~FailsGate(data) /\ pc \notin {"start", "header"}) =>
        IF HeaderFits(data)
        THEN /\ result.errorMessage \notin HeaderMessages
             /\ result.libraryName =
                   SubSeq(data, HeaderFixedSize(data[7]) + 1,
                          HeaderFixedSize(data[7]) + data[35])
             /\ result.header.version = data[7]
             /\ JustAfterHeader =>
                   /\ st.pos = HeaderFixedSize(data[7]) + data[35]
                   /\ ~st.eof /\ ~st.sat
        ELSE /\ Done
             /\ ~result.success
             /\ result.errorMessage = FirstShortSection(data)
             /\ result.libraryName = <<>>
             /\ st.pos <= Len(data)
             /\ ~st.eof /\ ~st.sat

\* a version-10 header with a two-byte library name was decoded and the
\* cursor stands at 47, the end of the file's header
HeaderLengthWitness ==
    /\ JustAfterHeader
    /\ data[7] = 10 /\ data[35] = 2
    /\ st.pos = 47
    /\ result.libraryName = <<76, 98>>

----------------------------------------------------------------------------
(* Properties of the module decoder                                        *)

\* C13 as stated: for every decoded module the value taken as flags is
\* the byte behind its last function's name and is below 0x20, and every
\* byte of every function name is 0x20 or more, whatever the name's length
NameTerminatorIsFlags ==
    \A i \in ModuleIds :
        /\ hist.modules[i].flags = FlagsByte(i)
        /\ hist.modules[i].flags < 32
        /\ \A k \in 1..Len(FunctionsOf(i)) :
              \A j \in 1..Len(FunctionsOf(i)[k].name) : FunctionsOf(i)[k].name[j] >= 32


\* the module decoded last is module i and nothing was read since
JustAfterModule(i) ==
    /\ i = Len(hist.modules)
    /\ pc = "tree" /\ stack # <<>>
    /\ st.pos = hist.modules[i].end /\ ~st.eof

\* C14: after a module whose flags have bit 0x08 (whatever bit 0x10) the
\* next module is decoded at the same leaf, starts where this one ended,
\* with no CRC header in between, and has the same crcLength and crc16;
\* after a module with bit 0x08 clear and bit 0x10 set the three bytes that
\* follow it are read as crcLength and big-endian crc16 of the next module
\* of the same leaf; after a module with both bits clear the leaf has ended:
\* control is back in the caller's child loop and a later module belongs to
\* another leaf.
CrcBlockStructure ==
    \A i \in 1..Len(hist.modules) :
        LET h == hist.modules[i]
            e == h.end
            same == HasBit(h.flags, IDASIG_PARSE_MORE_MODULES_WITH_SAME_CRC)
            more == HasBit(h.flags, IDASIG_PARSE_MORE_MODULES)
        IN  /\ JustAfterModule(i) =>
                  IF same THEN Top.at = "module" /\ Top.leafAt = h.leafAt
                               /\ Top.crcAt = h.crcAt
                  ELSE IF more THEN Top.at = "crc" /\ Top.leafAt = h.leafAt
                  ELSE Top.at = "loop"
            /\ i < Len(hist.modules) =>
                  LET g == hist.modules[i + 1]
                      m == result.modules[i]
                      n == result.modules[i + 1]
                  IN  IF same
                      THEN /\ g.leafAt = h.leafAt /\ g.crcAt = h.crcAt
                           /\ g.start = e
                           /\ n.crcLength = m.crcLength /\ n.crc16 = m.crc16
                      ELSE IF more
                      THEN /\ g.leafAt = h.leafAt /\ g.crcAt = e
                           /\ g.start = e + 3
                           /\ n.crcLength = body[e + 1]
                           /\ n.crc16 = 256 * body[e + 2] + body[e + 3]
                      ELSE g.leafAt # h.leafAt

\* a finished parse of a leaf whose first module ended in flags 0x18 and
\* whose second module stands in the same CRC block
CrcBlockWitness ==
    /\ result.success
    /\ Len(hist.modules) = 2
    /\ hist.modules[1].flags = 24
    /\ hist.modules[2].crcAt = hist.modules[1].crcAt
    /\ hist.modules[2].start = hist.modules[1].end

\* the child loop of parseTree is about to decode a node whose length byte
\* stands in the body
AtNodeLength ==
    /\ pc = "tree" /\ stack # <<>> /\ Top.at = "loop"
    /\ IntLessU32(Top.i, Top.treeNodes)
    /\ ~st.eof /\ st.pos < Len(body)

NodeHasLength(node, len) ==
    Len(node.patternBytes) = len /\ Len(node.variantMask) = len

\* the step that decodes a node: a length byte of 0 or of 64 and more ends
\* the parse without success and with a message; any other length byte L
\* either ends the parse too or leaves a node with L pattern bytes and L
\* mask entries in the activation and at the end of the child's path
NodeLengthStep ==
    AtNodeLength =>
        LET len == body[st.pos + 1]
        IN  IF len = 0 \/ len >= 64
            THEN pc' = "done" /\ ~result'.success /\ result'.errorMessage # ""
            ELSE pc' = "tree" =>
                    /\ Len(stack') = Len(stack) + 1
                    /\ NodeHasLength(stack'[Len(stack)].node, len)
                    /\ stack'[Len(stack')].path = Append(Top.path, stack'[Len(stack)].node)

\* every node of every patternPath has between 1 and 63 pattern bytes and
\* as many mask entries, and a parse that failed has success false
NodeLengthsInRange ==
    /\ \A i \in ModuleIds : \A k \in 1..Len(result.modules[i].patternPath) :
          \E len \in 1..63 : NodeHasLength(result.modules[i].patternPath[k], len)
    /\ hist.fail # "none" => pc = "done" /\ ~result.success

\* C15: a node-length byte of 0 or of at least 64 makes parse fail with
\* success false, a node decoded from a length byte L has patternBytes and
\* variantMask of length L, and every node of every patternPath has a
\* length between 1 and 63.
NodeLengthBounds == [][NodeLengthStep]_vars /\ []NodeLengthsInRange

\* a parse ended at a node whose length byte is 64, after both halves of
\* its mask were read
NodeLengthWitness ==
    /\ pc = "done" /\ hist.fail = "node" /\ ~result.success
    /\ ~st.eof /\ st.pos >= 4
    /\ body[st.pos - 3] = 1 /\ body[st.pos - 2] = 64

----------------------------------------------------------------------------
(* The reader on its own: any sequence of primitive reads over a body      *)

MaxReaderLen == 3   \* length up to which every body over ReaderBytes is tried

\* a plain byte, and the prefixes of the two-, four- and five-byte forms
ReaderBytes == {18, 129, 193, 225}

ReaderBodies ==
    UNION {[1..n -> ReaderBytes] : n \in 0..MaxReaderLen}
    \cup Prefixes({<<225, 18, 52, 86, 120>>, <<193, 18, 52, 86, 18>>,
                   <<18, 225, 18, 52, 86, 120>>, <<0, 18, 52, 86, 120>>})

InitReader ==
    /\ body \in ReaderBodies
    /\ data = body
    /\ st = StInit
    /\ version = 0
    /\ pc = "read"
    /\ stack = <<>>
    /\ result = ResultInit
    /\ hist = HistInit
    /\ prim = [op |-> "none", v |-> U32Zero, before |-> StInit]

\* a primitive op was called on the cursor st and returned r; its value is
\* kept as a quint32
ReadStepWith(op, r) ==
    /\ pc = "read"
    /\ st' = r.st
    /\ prim' = [op |-> op, v |-> r.v, before |-> st]
    /\ UNCHANGED <<data, body, version, pc, stack, result, hist>>

ReadByteStep == ReadStepWith("byte", Widen(readByte(st)))

ReadShortStep == ReadStepWith("u16be", Widen(readShortBE(st)))

ReadWordStep == ReadStepWith("u32be", readWordBE(st))

ReadMax2Step == ReadStepWith("max2", Widen(readMax2Bytes(st)))

ReadMultiStep == ReadStepWith("multi", readMultipleBytes(st))

NextReader ==
    \/ ReadByteStep
    \/ ReadShortStep
    \/ ReadWordStep
    \/ ReadMax2Step
    \/ ReadMultiStep

SpecReader == InitReader /\ [][NextReader]_vars

\* the k-th byte after position p of the body continued with zero bytes
PaddedByte(p, k) == IF p + k <= Len(body) THEN body[p + k] ELSE 0

\* the number of bytes primitive op takes at position p
Need(op, p) ==
    LET b == PaddedByte(p, 1)
    IN  CASE op = "byte" -> 1
          [] op = "u16be" -> 2
          [] op = "u32be" -> 4
          [] op = "max2" -> IF b < 128 THEN 1 ELSE 2
          [] op = "multi" -> IF b < 128 THEN 1 ELSE IF b < 192 THEN 2
                             ELSE IF b < 224 THEN 4 ELSE 5

\* the value of primitive op at position p of the body continued with zero
\* bytes, as a quint32
ValueOf(op, p) ==
    LET B(k) == PaddedByte(p, k)
        two == <<0, (B(1) % 128) * 256 + B(2)>>
    IN  CASE op = "byte" -> <<0, B(1)>>
          [] op = "u16be" -> <<0, B(1) * 256 + B(2)>>
          [] op = "u32be" -> <<B(1) * 256 + B(2), B(3) * 256 + B(4)>>
          [] op = "max2" -> IF B(1) < 128 THEN <<0, B(1)>> ELSE two
          [] op = "multi" ->
                IF B(1) < 128 THEN <<0, B(1)>>
                ELSE IF B(1) < 192 THEN two
                ELSE IF B(1) < 224 THEN <<(B(1) % 64) * 256 + B(2), B(3) * 256 + B(4)>>
                ELSE <<B(2) * 256 + B(3), B(4) * 256 + B(5)>>

\* the last primitive called needed more bytes than the body had left
Exhausted == prim.before.pos + Need(prim.op, prim.before.pos) > Len(body)

\* C16 as stated: a primitive that runs out of bytes sets eof and returns
\* 0, a primitive called with eof set returns 0 and leaves eof set and pos
\* as it was, and pos stays within 0..|body|
SaturatingReturnsZero ==
    prim.op # "none" =>
        /\ st.pos \in 0..Len(body)
        /\ (prim.before.eof \/ Exhausted) => st.eof /\ prim.v = U32Zero
        /\ prim.before.eof => st.pos = prim.before.pos

\* C16: pos stays within 0..|body|.  A primitive called with eof set
\* returns 0 and leaves eof set and pos as it was.  A primitive that runs
\* out of bytes sets eof, leaves pos at the end of the body and returns the
\* value of its bytes with 0 for each missing byte, which is 0 when no byte
\* was left.  A primitive that has all its bytes returns their value,
\* advances pos by their number and leaves eof clear.
SaturatingReader ==
    prim.op # "none" =>
        /\ st.pos \in 0..Len(body)
        /\ IF prim.before.eof
           THEN st.eof /\ prim.v = U32Zero /\ st.pos = prim.before.pos
           ELSE IF Exhausted
           THEN /\ st.eof /\ st.pos = Len(body)
                /\ prim.v = ValueOf(prim.op, prim.before.pos)
                /\ prim.before.pos = Len(body) => prim.v = U32Zero
           ELSE /\ ~st.eof
                /\ st.pos = prim.before.pos + Need(prim.op, prim.before.pos)
                /\ prim.v = ValueOf(prim.op, prim.before.pos)

\* u16be was called with one byte left: eof is set and the value returned
\* is that byte shifted, not 0
SaturatingReaderWitness ==
    /\ prim.op = "u16be"
    /\ ~prim.before.eof /\ prim.before.pos + 1 = Len(body)
    /\ st.eof /\ st.pos = Len(body)
    /\ prim.v = <<0, 256 * body[Len(body)]>>
    /\ prim.v # U32Zero

----------------------------------------------------------------------------
(* Termination of FlirtParser::parse                                       *)

\* an iteration of the tree-child loop, of the CRC-block loop or of the
\* module loop is about to run
AtLoopIteration ==
    /\ pc = "tree" /\ stack # <<>>
    /\ \/ Top.at = "loop" /\ IntLessU32(Top.i, Top.treeNodes)
       \/ Top.at = "crc"
       \/ Top.at = "module"

\* such an iteration moves the cursor forward or fails with eof set
LoopStep ==
    AtLoopIteration =>
        \/ st'.pos > st.pos
        \/ pc' = "done" /\ ~result'.success /\ st'.eof

\* the iterations of the public-function loop of a module began at
\* increasing positions behind the module's length and before its flags
\* byte; tail-byte and referenced-function loops ran at most 255 times, a
\* name loop at most FLIRT_NAME_MAX times; every activation of parseTree
\* below the root and every finished iteration of a child loop took at
\* least one byte of the body
LoopBounds ==
    /\ st.pos \in 0..Len(body)
    /\ Len(stack) <= st.pos + 1
    /\ \A k \in 1..Len(stack) : stack[k].i <= st.pos
    /\ \A i \in ModuleIds :
          LET h == hist.modules[i]
              m == result.modules[i]
              n == Len(h.fnAt)
          IN  /\ n = Len(m.publicFunctions) /\ n >= 1
              /\ h.start < h.fnAt[1]
              /\ \A k \in 1..(n - 1) : h.fnAt[k] < h.fnAt[k + 1]
              /\ h.fnAt[n] < h.flagsAt
              /\ h.tailCount <= 255 /\ Len(m.tailBytes) <= h.tailCount
              /\ h.refCount <= 255 /\ Len(m.referencedFunctions) <= h.refCount
              /\ \A k \in 1..n : Len(m.publicFunctions[k].name) <= FLIRT_NAME_MAX
              /\ \A k \in 1..Len(m.referencedFunctions) :
                    Len(m.referencedFunctions[k].name) < FLIRT_NAME_MAX

\* C17: parse returns after finitely many steps; every iteration of the
\* tree-child, CRC-block and module loops advances pos or fails with eof
\* set, also under a tree-node count of 0xffffffff; the iterations of a
\* public-function loop begin at increasing positions; the tail-byte and
\* referenced-function loops run at most 255 times, a name loop at most
\* 1024 times, and the depth of the tree walk is bounded by the number of
\* bytes read.
ParseTerminates == <>Done /\ [][LoopStep]_vars /\ []LoopBounds

\* a tree-node count of 0xffffffff: the child loop walked two children and
\* ended at the end of the body with eof set
ParseTerminatesWitness ==
    /\ data \in HugeCountFiles
    /\ pc = "done" /\ ~result.success /\ hist.fail = "node"
    /\ st.eof /\ st.pos = Len(body)
    /\ Len(result.modules) = 2

============================================================================
